---- MODULE Spec2Model ----
(***************************************************************************)
(* State-machine model of rust-basic-api: configuration loading            *)
(* (src/config.rs), process startup and the /health handler (src/main.rs), *)
(* and pool construction with migration (src/repository/mod.rs).           *)
(*                                                                         *)
(* Strings are sequences of one-character strings.  Parsed numbers are     *)
(* kept as canonical decimal digit sequences (no leading zero), so that    *)
(* the u16 / u32 / u64 ranges of the configuration fields keep their       *)
(* width.                                                                  *)
(***************************************************************************)
EXTENDS Integers, Sequences, FiniteSets, TLC

\* ------------------------------------------------------------------------
\* Bounds of the model
\* ------------------------------------------------------------------------

\* Number of optional variables that are set in the process environment
\* of a configuration-loading run.
MaxSetVars == 2

\* Number of embedded migrations (the migrations/ folder of the crate).
NumMigrations == 2

\* Number of /health requests served in one run.
MaxRequests == 3

\* Number of request-handling tasks that run concurrently.
NumHandlers == 2

\* Number of concurrent callers of init_pool_and_migrate.
NumCallers == 2

\* Number of calls of init_pool_and_migrate made in one run, by all callers.
MaxCalls == 2

\* Number of concurrent test transactions on the users table.
NumTx == 2

\* Number of INSERT INTO users statements executed before the sequence is
\* restarted.
MaxInserts == 3

\* ------------------------------------------------------------------------
\* Environment values and strings
\* ------------------------------------------------------------------------

VarNames ==
  {"DATABASE_URL", "SERVER_PORT", "DB_MAX_CONNECTIONS", "DB_MIN_CONNECTIONS",
   "DB_CONNECT_TIMEOUT_SECS", "DB_IDLE_TIMEOUT_SECS", "DB_ACQUIRE_TIMEOUT_SECS"}

OptionalVars == VarNames \ {"DATABASE_URL"}

\* A variable of the process environment: absent, set to bytes that are
\* not valid Unicode, or set to a string.
NotPresent == [kind |-> "NotPresent"]
NotUnicode == [kind |-> "NotUnicode"]
Str(s) == [kind |-> "Str", s |-> s]

IsStr(v) == v.kind = "Str"

Digits == {"0", "1", "2", "3", "4", "5", "6", "7", "8", "9"}

DigitOf(c) ==
  CASE c = "0" -> 0 [] c = "1" -> 1 [] c = "2" -> 2 [] c = "3" -> 3
    [] c = "4" -> 4 [] c = "5" -> 5 [] c = "6" -> 6 [] c = "7" -> 7
    [] c = "8" -> 8 [] c = "9" -> 9

\* ------------------------------------------------------------------------
\* Decimal digit sequences (unsigned integers of any width)
\* ------------------------------------------------------------------------

RECURSIVE Canon(_)
\* Drop leading zeros; zero is <<0>>.
Canon(ds) ==
  IF Len(ds) > 1 /\ ds[1] = 0 THEN Canon(Tail(ds)) ELSE ds

RECURSIVE LexLeq(_, _)
LexLeq(a, b) ==
  IF Len(a) = 0 THEN TRUE
  ELSE IF a[1] < b[1] THEN TRUE
  ELSE IF a[1] > b[1] THEN FALSE
  ELSE LexLeq(Tail(a), Tail(b))

\* a <= b for canonical digit sequences.
NumLeq(a, b) ==
  \/ Len(a) < Len(b)
  \/ Len(a) = Len(b) /\ LexLeq(a, b)

RECURSIVE ToNat(_)
\* The value of a (short) digit sequence.
ToNat(ds) ==
  IF Len(ds) = 0 THEN 0
  ELSE 10 * ToNat(SubSeq(ds, 1, Len(ds) - 1)) + ds[Len(ds)]

U16Max == <<6, 5, 5, 3, 5>>
U32Max == <<4, 2, 9, 4, 9, 6, 7, 2, 9, 5>>
U64Max == <<1, 8, 4, 4, 6, 7, 4, 4, 0, 7, 3, 7, 0, 9, 5, 5, 1, 6, 1, 5>>

\* ------------------------------------------------------------------------
\* str::parse::<uN>()  (called at src/config.rs:49,53,57,61,65,69)
\* ------------------------------------------------------------------------

ParseErr == [ok |-> FALSE]
ParseOk(ds) == [ok |-> TRUE, val |-> ds]

RECURSIVE ParseDigits(_, _, _)
\* The digit loop: acc := acc * 10 + digit, checked against the type's
\* maximum; a non-digit is InvalidDigit, an overflow is PosOverflow.
ParseDigits(s, acc, max) ==
  IF Len(s) = 0 THEN ParseOk(acc)
  ELSE IF s[1] \notin Digits THEN ParseErr
  ELSE LET next == Canon(Append(acc, DigitOf(s[1])))
       IN  IF NumLeq(next, max)
           THEN ParseDigits(Tail(s), next, max)
           ELSE ParseErr

\* Unsigned parse: empty is an error, a lone sign is an error, one
\* leading "+" is accepted, "-" is never accepted, no trimming.
ParseUnsigned(s, max) ==
  IF Len(s) = 0 THEN ParseErr
  ELSE IF Len(s) = 1 /\ s[1] \in {"+", "-"} THEN ParseErr
  ELSE IF s[1] = "+" THEN ParseDigits(Tail(s), <<0>>, max)
  ELSE ParseDigits(s, <<0>>, max)

\* ------------------------------------------------------------------------
\* dotenvy::dotenv().ok()  (src/config.rs:44)
\* ------------------------------------------------------------------------

\* The .env file: absent, or a sequence of lines, each a key/value pair
\* or a line that does not parse.
NoFile == [present |-> FALSE]
File(lines) == [present |-> TRUE, lines |-> lines]
Line(k, v) == [bad |-> FALSE, key |-> k, val |-> v]
BadLine == [bad |-> TRUE]

RECURSIVE LoadLines(_, _)
\* Lines are applied in order; a variable is set only when env::var on it
\* is an error (absent, or not Unicode); the first bad line stops the
\* load and keeps what was set before it.
LoadLines(e, lines) ==
  IF Len(lines) = 0 THEN e
  ELSE IF lines[1].bad THEN e
  ELSE LET k == lines[1].key
           e2 == IF IsStr(e[k]) THEN e ELSE [e EXCEPT ![k] = Str(lines[1].val)]
       IN  LoadLines(e2, Tail(lines))

\* The result of the load is discarded by .ok(): a missing or broken
\* file is not an error.
DotenvLoad(e, f) ==
  IF f.present THEN LoadLines(e, f.lines) ELSE e

\* ------------------------------------------------------------------------
\* Config::from_env  (src/config.rs:42-81)
\* ------------------------------------------------------------------------

DefaultPortStr == <<"3", "0", "0", "0">>
DefaultPort == <<3, 0, 0, 0>>
DefaultMaxConnStr == <<"1", "0">>
DefaultMaxConn == <<1, 0>>
DefaultMinConnStr == <<"1">>
DefaultMinConn == <<1>>
DefaultConnectTimeoutStr == <<"5">>
DefaultConnectTimeout == <<5>>
DefaultIdleTimeoutStr == <<"3", "0", "0">>
DefaultIdleTimeout == <<3, 0, 0>>
DefaultAcquireTimeoutStr == <<"3", "0">>
DefaultAcquireTimeout == <<3, 0>>

\* Mutant: a value that does not parse becomes zero (unwrap_or_default).
OptionalField_ZeroOnError(e, k, dfltStr, dflt, max) ==
  LET raw == IF IsStr(e[k]) THEN e[k].s ELSE dfltStr
      p == ParseUnsigned(raw, max)
  IN  IF p.ok THEN p.val ELSE <<0>>

\* env::var(k).unwrap_or_else(|_| dfltStr).parse().unwrap_or(dflt)
OptionalField(e, k, dfltStr, dflt, max) ==
  LET raw == IF IsStr(e[k]) THEN e[k].s ELSE dfltStr
      p == ParseUnsigned(raw, max)
  IN  IF p.ok THEN p.val ELSE dflt

\* The body of from_env after the .env load: env::var("DATABASE_URL")?
\* and the six optional fields.
ReadConfig(e) ==
  IF ~IsStr(e["DATABASE_URL"])
  THEN [ok |-> FALSE, err |-> e["DATABASE_URL"].kind]
  ELSE [ok |-> TRUE,
        cfg |-> [
          database_url |-> e["DATABASE_URL"].s,
          server_port |->
            OptionalField(e, "SERVER_PORT", DefaultPortStr, DefaultPort, U16Max),
          db_max_connections |->
            OptionalField(e, "DB_MAX_CONNECTIONS", DefaultMaxConnStr,
                          DefaultMaxConn, U32Max),
          db_min_connections |->
            OptionalField(e, "DB_MIN_CONNECTIONS", DefaultMinConnStr,
                          DefaultMinConn, U32Max),
          db_connect_timeout_secs |->
            OptionalField(e, "DB_CONNECT_TIMEOUT_SECS", DefaultConnectTimeoutStr,
                          DefaultConnectTimeout, U64Max),
          db_idle_timeout_secs |->
            OptionalField(e, "DB_IDLE_TIMEOUT_SECS", DefaultIdleTimeoutStr,
                          DefaultIdleTimeout, U64Max),
          db_acquire_timeout_secs |->
            OptionalField(e, "DB_ACQUIRE_TIMEOUT_SECS", DefaultAcquireTimeoutStr,
                          DefaultAcquireTimeout, U64Max)]]

FromEnv(e, f) == ReadConfig(DotenvLoad(e, f))

NoConfig == [ok |-> FALSE, err |-> "NotLoaded"]

\* ------------------------------------------------------------------------
\* State
\* ------------------------------------------------------------------------

VARIABLES
  env,        \* the process environment: variable name -> value
  envFile,    \* the .env file found by dotenvy
  portFree,   \* whether the listening address can be bound
  pc,         \* position of main
  config,     \* result of Config::from_env
  diag,       \* the error main returned with ("" while none)
  appState,   \* AppState.pool as held by the router: "none" or "pool"
  listener,   \* the TCP listener: "none" or "bound"
  db,         \* the database server: "up", "refusing" or "silent"
  dbDownAt,   \* "up"; else when the database left "up": "migrated" (just
              \* after main's migration run returned Ok) or "other"
  ledger,     \* _sqlx_migrations: the applied versions, in order of insertion
  ddlRuns,    \* version -> number of times its SQL was executed and committed
  lockHolder, \* holder of the migration advisory lock (NoProc when free)
  elapsed,    \* per process: seconds waited in the current connect
  mig,        \* per process: state of its Migrator::run
  hpc,        \* per handler task: "idle" or "probing"
  served,     \* the /health responses sent, in order
  cpc,        \* per caller: position in init_pool_and_migrate
  cres,       \* per caller: result of its last call
  calls,      \* calls of init_pool_and_migrate made so far
  idle,       \* the pool: number of idle connections it holds
  waited,     \* per handler task: seconds waited in the current acquire
  rows,       \* the users table: the committed rows
  nextId,     \* the users_id_seq sequence: the next id
  tx,         \* per test transaction: its state and uncommitted rows
  lastInsert  \* the last INSERT INTO users executed and its result

cfgVars == <<env, envFile, portFree, config>>
mainVars == <<pc, diag, appState, listener>>
dbVars == <<db, dbDownAt, ledger, ddlRuns, lockHolder>>
healthVars == <<hpc, served>>
callerVars == <<cpc, cres, calls>>
poolVars == <<idle, waited>>
usersVars == <<rows, nextId, tx, lastInsert>>
vars ==
  <<env, envFile, portFree, pc, config, diag, appState, listener, db, dbDownAt,
    ledger, ddlRuns, lockHolder, elapsed, mig, hpc, served, cpc, cres, calls,
    idle, waited, rows, nextId, tx, lastInsert>>

NoProc == -1
Main == 0
Callers == 1..NumCallers
Procs == {Main} \cup Callers
Handlers == 1..NumHandlers
Versions == 1..NumMigrations

\* The embedded migrations in ascending version order.
FullLedger == [i \in Versions |-> i]

RECURSIVE Prefix(_)
Prefix(k) == IF k = 0 THEN <<>> ELSE Append(Prefix(k - 1), k)

SeqToSet(s) == {s[i] : i \in DOMAIN s}

MigIdle == [phase |-> "none", idx |-> 0, snap |-> {}, err |-> "none"]

\* ------------------------------------------------------------------------
\* Inputs
\* ------------------------------------------------------------------------

GoodUrl == <<"p", "g", ":", "d", "b">>

\* The connection string has a scheme (it parses as a URL).
UrlParses(s) == Len(s) >= 3 /\ SubSeq(s, 1, 3) = <<"p", "g", ":">>

EmptyEnv == [k \in VarNames |-> NotPresent]

\* Values of an optional numeric variable.
NumericStrings ==
  { <<>>,
    <<"8", "0", "8", "0">>,
    <<"+", "7">>,
    <<"-", "1">>,
    <<" ", "5">>,
    <<"0", "0", "7">>,
    <<"6", "5", "5", "3", "5">>,
    <<"6", "5", "5", "3", "6">>,
    <<"4", "2", "9", "4", "9", "6", "7", "2", "9", "6">>,
    <<"1", "8", "4", "4", "6", "7", "4", "4", "0", "7", "3", "7", "0", "9", "5",
      "5", "1", "6", "1", "6">> }

OptionalValues == {NotUnicode} \cup {Str(s) : s \in NumericStrings}

UrlValues == {NotPresent, NotUnicode, Str(<<>>), Str(GoodUrl)}

EnvFiles ==
  { NoFile,
    File(<<Line("DATABASE_URL", GoodUrl)>>),
    File(<<Line("SERVER_PORT", <<"9", "0">>), BadLine,
           Line("DATABASE_URL", GoodUrl)>>) }

\* The environment that sets DATABASE_URL to u and the optional
\* variables of DOMAIN f as f says.
EnvSetting(u, f) ==
  [k \in VarNames |->
     IF k \in DOMAIN f THEN f[k]
     ELSE IF k = "DATABASE_URL" THEN u ELSE NotPresent]

\* The sets of optional variables a configuration-loading run sets: at
\* most MaxSetVars of them.
SetVarChoices == {T \in SUBSET OptionalVars : Cardinality(T) <= MaxSetVars}

\* Environments of the startup runs.
StartupEnvs ==
  { [EmptyEnv EXCEPT !["DATABASE_URL"] = u, !["DB_CONNECT_TIMEOUT_SECS"] = t,
                     !["SERVER_PORT"] = s] :
    u \in UrlValues,
    t \in {NotPresent, Str(<<"0">>), Str(<<"2">>)},
    s \in {NotPresent, Str(<<"8", "0", "8", "0">>)} }

StartupFiles == {NoFile, File(<<Line("DATABASE_URL", GoodUrl)>>)}

\* ------------------------------------------------------------------------
\* The database server (environment of the program)
\* ------------------------------------------------------------------------

\* The server stops answering, refuses, or comes back, at any time.
DbChange ==
  /\ \E d \in {"up", "refusing", "silent"} \ {db} :
       /\ db' = d
       /\ dbDownAt' = IF d = "up" THEN "up"
                      ELSE IF db # "up" THEN dbDownAt
                      ELSE IF pc = "migrated" THEN "migrated" ELSE "other"
  /\ UNCHANGED <<cfgVars, mainVars, ledger, ddlRuns, lockHolder, elapsed, mig,
                 healthVars, callerVars, poolVars, usersVars>>

\* ------------------------------------------------------------------------
\* sqlx::migrate!().run(&pool)
\* (src/main.rs:54-57, src/repository/mod.rs:35)
\* ------------------------------------------------------------------------

\* Mutant: the run does not take the advisory lock (locking disabled).
MigLock_NoLock(p) ==
  /\ mig[p].phase = "lock"
  /\ db = "up"
  /\ lockHolder' = lockHolder
  /\ mig' = [mig EXCEPT ![p] = [phase |-> "apply", idx |-> 0,
                                snap |-> SeqToSet(ledger), err |-> "none"]]
  /\ UNCHANGED <<ledger, ddlRuns>>

\* Take the advisory lock, then read the applied versions.
MigLock(p) ==
  /\ mig[p].phase = "lock"
  /\ db = "up"
  /\ lockHolder = NoProc
  /\ lockHolder' = p
  /\ mig' = [mig EXCEPT ![p] = [phase |-> "apply", idx |-> 0,
                                snap |-> SeqToSet(ledger), err |-> "none"]]
  /\ UNCHANGED <<ledger, ddlRuns>>

\* Mutant: every migration is executed, recorded as applied or not.
MigApply_Reapply(p) ==
  /\ mig[p].phase = "apply"
  /\ db = "up"
  /\ mig[p].idx < NumMigrations
  /\ LET v == mig[p].idx + 1
     IN  /\ ledger' = Append(ledger, v)
         /\ ddlRuns' = [ddlRuns EXCEPT ![v] = @ + 1]
         /\ mig' = [mig EXCEPT ![p].idx = v]
  /\ UNCHANGED lockHolder

\* The next migration in ascending order: skipped when recorded as
\* applied, otherwise executed and recorded in one transaction.
MigApply(p) ==
  /\ mig[p].phase = "apply"
  /\ db = "up"
  /\ mig[p].idx < NumMigrations
  /\ LET v == mig[p].idx + 1
     IN  /\ IF v \in mig[p].snap
            THEN UNCHANGED <<ledger, ddlRuns>>
            ELSE /\ ledger' = Append(ledger, v)
                 /\ ddlRuns' = [ddlRuns EXCEPT ![v] = @ + 1]
         /\ mig' = [mig EXCEPT ![p].idx = v]
  /\ UNCHANGED lockHolder

\* A pending migration's SQL fails: its transaction is rolled back, run
\* returns the error, and the lock goes with the dropped connection.
MigApplyFail(p) ==
  /\ mig[p].phase = "apply"
  /\ db = "up"
  /\ mig[p].idx < NumMigrations
  /\ (mig[p].idx + 1) \notin mig[p].snap
  /\ mig' = [mig EXCEPT ![p].phase = "err", ![p].err = "sql"]
  /\ lockHolder' = NoProc
  /\ UNCHANGED <<ledger, ddlRuns>>

\* The server refuses while run is locking or applying.
MigDbFail(p) ==
  /\ mig[p].phase \in {"lock", "apply"}
  /\ db = "refusing"
  /\ mig' = [mig EXCEPT ![p].phase = "err", ![p].err = "db"]
  /\ lockHolder' = IF lockHolder = p THEN NoProc ELSE lockHolder
  /\ UNCHANGED <<ledger, ddlRuns>>

\* Every migration was considered: unlock and return Ok.
MigUnlock(p) ==
  /\ mig[p].phase = "apply"
  /\ db = "up"
  /\ mig[p].idx = NumMigrations
  /\ mig' = [mig EXCEPT ![p].phase = "ok"]
  /\ lockHolder' = NoProc
  /\ UNCHANGED <<ledger, ddlRuns>>

\* ------------------------------------------------------------------------
\* main  (src/main.rs:26-80)
\* ------------------------------------------------------------------------

ConnectTimeoutSecs == ToNat(config.cfg.db_connect_timeout_secs)

\* Mutant: a missing DATABASE_URL falls back to a default connection
\* string, as the optional fields do.
LoadConfig_DefaultUrl ==
  /\ pc = "start"
  /\ env' = DotenvLoad(env, envFile)
  /\ config' = ReadConfig([env' EXCEPT !["DATABASE_URL"] =
                             IF IsStr(@) THEN @ ELSE Str(GoodUrl)])
  /\ IF config'.ok
     THEN /\ pc' = "create_pool"
          /\ diag' = diag
     ELSE /\ pc' = "exit_err"
          /\ diag' = "Failed to load configuration"
  /\ UNCHANGED <<envFile, portFree, appState, listener, dbVars, elapsed, mig,
                 healthVars, callerVars, poolVars, usersVars>>

\* Config::from_env().map_err("Failed to load configuration")?
LoadConfig ==
  /\ pc = "start"
  /\ env' = DotenvLoad(env, envFile)
  /\ config' = ReadConfig(env')
  /\ IF config'.ok
     THEN /\ pc' = "create_pool"
          /\ diag' = diag
     ELSE /\ pc' = "exit_err"
          /\ diag' = "Failed to load configuration"
  /\ UNCHANGED <<envFile, portFree, appState, listener, dbVars, elapsed, mig,
                 healthVars, callerVars, poolVars, usersVars>>

\* repository::create_pool(&config.database_url): the connect completes
\* before the deadline and the pool is built.
CreatePoolOk ==
  /\ pc = "create_pool"
  /\ UrlParses(config.cfg.database_url)
  /\ db = "up"
  /\ elapsed[Main] < ConnectTimeoutSecs
  /\ pc' = "migrate"
  /\ mig' = [mig EXCEPT ![Main] = [MigIdle EXCEPT !.phase = "lock"]]
  /\ elapsed' = [elapsed EXCEPT ![Main] = 0]
  /\ UNCHANGED <<cfgVars, diag, appState, listener, dbVars, healthVars,
                 callerVars, poolVars, usersVars>>

\* The connection string does not parse, or the server refuses.
CreatePoolErr ==
  /\ pc = "create_pool"
  /\ \/ ~UrlParses(config.cfg.database_url)
     \/ db = "refusing" /\ elapsed[Main] < ConnectTimeoutSecs
  /\ pc' = "exit_err"
  /\ diag' = "Failed to create database pool"
  /\ UNCHANGED <<cfgVars, appState, listener, dbVars, elapsed, mig,
                 healthVars, callerVars, poolVars, usersVars>>

\* A second passes while the connect is pending.
CreatePoolTick ==
  /\ pc = "create_pool"
  /\ UrlParses(config.cfg.database_url)
  /\ elapsed[Main] < ConnectTimeoutSecs
  /\ elapsed' = [elapsed EXCEPT ![Main] = @ + 1]
  /\ UNCHANGED <<cfgVars, mainVars, dbVars, mig, healthVars, callerVars,
                 poolVars, usersVars>>

\* The deadline passes first: the connect is abandoned.
CreatePoolTimeout ==
  /\ pc = "create_pool"
  /\ UrlParses(config.cfg.database_url)
  /\ elapsed[Main] >= ConnectTimeoutSecs
  /\ pc' = "exit_err"
  /\ diag' = "Failed to create database pool"
  /\ UNCHANGED <<cfgVars, appState, listener, dbVars, elapsed, mig,
                 healthVars, callerVars, poolVars, usersVars>>

\* sqlx::migrate!().run(&pool) while it makes progress.
MainMigrateStep ==
  /\ pc = "migrate"
  /\ \/ MigLock(Main)
     \/ MigApply(Main)
  /\ UNCHANGED <<cfgVars, mainVars, db, dbDownAt, elapsed, healthVars,
                 callerVars, poolVars, usersVars>>

\* Mutant: the migration is started but not awaited.
MainMigrateOk_NotAwaited ==
  /\ pc = "migrate"
  /\ mig[Main].phase \in {"lock", "apply"}
  /\ pc' = "migrated"
  /\ UNCHANGED <<cfgVars, diag, appState, listener, dbVars, elapsed, mig,
                 healthVars, callerVars, poolVars, usersVars>>

\* run returned Ok.
MainMigrateOk ==
  /\ pc = "migrate"
  /\ MigUnlock(Main)
  /\ pc' = "migrated"
  /\ UNCHANGED <<cfgVars, diag, appState, listener, db, dbDownAt, elapsed,
                 healthVars, callerVars, poolVars, usersVars>>

\* Mutant: a migration error is logged and startup goes on.
MainMigrateErr_Continue ==
  /\ pc = "migrate"
  /\ \/ MigApplyFail(Main)
     \/ MigDbFail(Main)
  /\ pc' = "migrated"
  /\ UNCHANGED <<cfgVars, diag, appState, listener, db, dbDownAt, elapsed,
                 healthVars, callerVars, poolVars, usersVars>>

\* run returned Err: .map_err("Failed to run database migrations")?
MainMigrateErr ==
  /\ pc = "migrate"
  /\ \/ MigApplyFail(Main)
     \/ MigDbFail(Main)
  /\ pc' = "exit_err"
  /\ diag' = "Failed to run database migrations"
  /\ UNCHANGED <<cfgVars, appState, listener, db, dbDownAt, elapsed,
                 healthVars, callerVars, poolVars, usersVars>>

\* AppState { pool } and the router built with it.
BuildState ==
  /\ pc = "migrated"
  /\ appState' = "pool"
  /\ pc' = "built"
  /\ UNCHANGED <<cfgVars, diag, listener, dbVars, elapsed, mig, healthVars,
                 callerVars, poolVars, usersVars>>

\* TcpListener::bind(addr).await?
Bind ==
  /\ pc = "built"
  /\ IF portFree
     THEN /\ listener' = "bound"
          /\ pc' = "bound"
          /\ diag' = diag
     ELSE /\ listener' = listener
          /\ pc' = "exit_err"
          /\ diag' = "Address already in use"
  /\ UNCHANGED <<cfgVars, appState, dbVars, elapsed, mig, healthVars,
                 callerVars, poolVars, usersVars>>

\* axum::serve(listener, app): the accept loop starts.
Serve ==
  /\ pc = "bound"
  /\ pc' = "serving"
  /\ UNCHANGED <<cfgVars, diag, appState, listener, dbVars, elapsed, mig,
                 healthVars, callerVars, poolVars, usersVars>>

\* ------------------------------------------------------------------------
\* health_check  (src/main.rs:86-93)
\* ------------------------------------------------------------------------

InFlight == Cardinality({h \in Handlers : hpc[h] = "probing"})

\* The handler's return value as a response: a &'static str is sent
\* with status 200 whichever string it is.
HealthResponse(probeOk) ==
  [status |-> 200,
   body |-> IF probeOk THEN "OK" ELSE "Database connection failed"]

\* A connection is accepted and GET /health is routed to the handler,
\* which starts sqlx::query("SELECT 1").execute(&state.pool).
HealthRequest(h) ==
  /\ pc = "serving"
  /\ appState = "pool"
  /\ hpc[h] = "idle"
  /\ Len(served) + InFlight < MaxRequests
  /\ hpc' = [hpc EXCEPT ![h] = "probing"]
  /\ UNCHANGED <<cfgVars, mainVars, dbVars, elapsed, mig, served, callerVars,
                 poolVars, usersVars>>

\* Mutant: the handler unwraps the query result, and a failed probe
\* takes the process down.
HealthRespond_Unwrap(h) ==
  /\ hpc[h] = "probing"
  /\ db \in {"up", "refusing"}
  /\ IF db = "up"
     THEN /\ served' = Append(served, [probeOk |-> TRUE,
                                       status |-> 200, body |-> "OK"])
          /\ UNCHANGED mainVars
     ELSE /\ served' = served
          /\ pc' = "exit_err"
          /\ diag' = "panicked"
          /\ UNCHANGED <<appState, listener>>
  /\ hpc' = [hpc EXCEPT ![h] = "idle"]
  /\ UNCHANGED <<cfgVars, dbVars, elapsed, mig, callerVars, poolVars,
                 usersVars>>

\* The query returns (Ok when the server answered, Err when it refused)
\* and the handler returns its string.
HealthRespond(h) ==
  /\ hpc[h] = "probing"
  /\ db \in {"up", "refusing"}
  /\ LET probeOk == (db = "up")
         r == HealthResponse(probeOk)
     IN  served' = Append(served, [probeOk |-> probeOk,
                                   status |-> r.status, body |-> r.body])
  /\ hpc' = [hpc EXCEPT ![h] = "idle"]
  /\ UNCHANGED <<cfgVars, mainVars, dbVars, elapsed, mig, callerVars,
                 poolVars, usersVars>>

\* ------------------------------------------------------------------------
\* The users table  (src/tests/database_integration.rs,
\* src/repository/test_utils.rs)
\* ------------------------------------------------------------------------

Txs == 1..NumTx

\* The emails the tests bind.
Emails == {"unique_test@example.com", "trigger_test@example.com"}

TxNone == [state |-> "none", pending |-> {}]

NoInsert == [tx |-> 0, email |-> "", res |-> "none", id |-> 0]

EmailsOf(S) == {r.email : r \in S}

\* The rows a statement of transaction t sees: the committed rows and the
\* rows t inserted itself.
VisibleTo(t) == rows \cup tx[t].pending

\* The UNIQUE constraint on users.email: e is the email of a row the
\* statement sees.
EmailTaken(S, e) == e \in EmailsOf(S)

\* Another transaction in progress has inserted e: the insert waits for
\* that transaction to end.
InsertWaits(t, e) ==
  \E u \in Txs \ {t} :
    tx[u].state \in {"active", "aborted"} /\ e \in EmailsOf(tx[u].pending)

\* pool.begin() on the migrated database.
TxBegin(t) ==
  /\ ledger = FullLedger
  /\ db = "up"
  /\ tx[t].state = "none"
  /\ tx' = [tx EXCEPT ![t] = [state |-> "active", pending |-> {}]]
  /\ UNCHANGED <<cfgVars, mainVars, dbVars, elapsed, mig, healthVars,
                 callerVars, poolVars, rows, nextId, lastInsert>>

\* Mutant: the table has no constraint on email.
TxInsert_NoConstraint(t, e) ==
  /\ tx[t].state = "active"
  /\ nextId <= MaxInserts
  /\ nextId' = nextId + 1
  /\ tx' = [tx EXCEPT ![t].pending = @ \cup {[id |-> nextId, email |-> e]}]
  /\ lastInsert' = [tx |-> t, email |-> e, res |-> "ok", id |-> nextId]
  /\ UNCHANGED <<cfgVars, mainVars, dbVars, elapsed, mig, healthVars,
                 callerVars, poolVars, rows>>

\* INSERT INTO users (name, email) VALUES ($1, $2) executed on the
\* transaction.  In a transaction that already failed the statement is
\* refused.  Otherwise the id is drawn from the sequence, and the row is
\* added unless its email is taken: then the statement fails with a
\* unique violation and the transaction is aborted.
TxInsert(t, e) ==
  /\ tx[t].state \in {"active", "aborted"}
  /\ IF tx[t].state = "aborted"
     THEN /\ lastInsert' = [tx |-> t, email |-> e,
                            res |-> "in_failed_transaction", id |-> 0]
          /\ UNCHANGED <<tx, nextId>>
     ELSE /\ nextId <= MaxInserts
          /\ ~InsertWaits(t, e)
          /\ nextId' = nextId + 1
          /\ IF EmailTaken(VisibleTo(t), e)
             THEN /\ tx' = [tx EXCEPT ![t].state = "aborted"]
                  /\ lastInsert' = [tx |-> t, email |-> e,
                                    res |-> "unique_violation", id |-> nextId]
             ELSE /\ tx' = [tx EXCEPT ![t].pending =
                                        @ \cup {[id |-> nextId, email |-> e]}]
                  /\ lastInsert' = [tx |-> t, email |-> e, res |-> "ok",
                                    id |-> nextId]
  /\ UNCHANGED <<cfgVars, mainVars, dbVars, elapsed, mig, healthVars,
                 callerVars, poolVars, rows>>

\* tx.rollback(): the transaction's rows are discarded.
TxRollback(t) ==
  /\ tx[t].state \in {"active", "aborted"}
  /\ tx' = [tx EXCEPT ![t] = TxNone]
  /\ UNCHANGED <<cfgVars, mainVars, dbVars, elapsed, mig, healthVars,
                 callerVars, poolVars, rows, nextId, lastInsert>>

\* tx.commit(): the transaction's rows become committed; the commit of a
\* failed transaction is a rollback.
TxCommit(t) ==
  /\ tx[t].state \in {"active", "aborted"}
  /\ rows' = IF tx[t].state = "active" THEN rows \cup tx[t].pending ELSE rows
  /\ tx' = [tx EXCEPT ![t] = TxNone]
  /\ UNCHANGED <<cfgVars, mainVars, dbVars, elapsed, mig, healthVars,
                 callerVars, poolVars, nextId, lastInsert>>

\* cleanup_database: TRUNCATE TABLE users RESTART IDENTITY CASCADE, which
\* waits for every transaction that has inserted.
CleanupDatabase ==
  /\ ledger = FullLedger
  /\ db = "up"
  /\ \A t \in Txs :
       tx[t].state = "none" \/ (tx[t].state = "active" /\ tx[t].pending = {})
  /\ rows' = {}
  /\ nextId' = 1
  /\ UNCHANGED <<cfgVars, mainVars, dbVars, elapsed, mig, healthVars,
                 callerVars, poolVars, tx, lastInsert>>

InitUsers ==
  /\ rows = {}
  /\ nextId = 1
  /\ tx = [t \in Txs |-> TxNone]
  /\ lastInsert = NoInsert

InitPool ==
  /\ idle = 0
  /\ waited = [h \in Handlers |-> 0]

\* ------------------------------------------------------------------------
\* Specification of a startup run
\* ------------------------------------------------------------------------

InitCommon ==
  /\ pc = "start"
  /\ diag = ""
  /\ appState = "none"
  /\ listener = "none"
  /\ dbDownAt = IF db = "up" THEN "up" ELSE "other"
  /\ ddlRuns = [v \in Versions |-> IF v \in SeqToSet(ledger) THEN 1 ELSE 0]
  /\ lockHolder = NoProc
  /\ elapsed = [p \in Procs |-> 0]
  /\ mig = [p \in Procs |-> MigIdle]
  /\ hpc = [h \in Handlers |-> "idle"]
  /\ served = <<>>
  /\ cpc = [c \in Callers |-> "idle"]
  /\ cres = [c \in Callers |-> "none"]
  /\ calls = 0
  /\ InitPool
  /\ InitUsers

Init ==
  /\ env \in StartupEnvs
  /\ envFile \in StartupFiles
  /\ db \in {"up", "refusing", "silent"}
  /\ ledger \in {Prefix(k) : k \in 0..NumMigrations}
  /\ config = NoConfig
  /\ portFree \in BOOLEAN
  /\ InitCommon

Next ==
  \/ LoadConfig
  \/ CreatePoolOk
  \/ CreatePoolErr
  \/ CreatePoolTick
  \/ CreatePoolTimeout
  \/ MainMigrateStep
  \/ MainMigrateOk
  \/ MainMigrateErr
  \/ BuildState
  \/ Bind
  \/ Serve
  \/ \E h \in Handlers : HealthRequest(h)
  \/ \E h \in Handlers : HealthRespond(h)
  \/ DbChange

Spec == Init /\ [][Next]_vars

\* ------------------------------------------------------------------------
\* init_pool_and_migrate  (src/repository/mod.rs:18-38)
\* ------------------------------------------------------------------------

\* A caller passes the loaded Config; options.connect starts under
\* tokio::time::timeout(db_connect_timeout_secs).  A connection string
\* that does not parse makes connect return its error on the first poll.
InitPoolCall(c) ==
  /\ cpc[c] \in {"idle", "ok", "err"}
  /\ calls < MaxCalls
  /\ config.ok
  /\ calls' = calls + 1
  /\ IF UrlParses(config.cfg.database_url)
     THEN /\ cpc' = [cpc EXCEPT ![c] = "connecting"]
          /\ cres' = [cres EXCEPT ![c] = "none"]
     ELSE /\ cpc' = [cpc EXCEPT ![c] = "err"]
          /\ cres' = [cres EXCEPT ![c] = "connect"]
  /\ elapsed' = [elapsed EXCEPT ![c] = 0]
  /\ mig' = [mig EXCEPT ![c] = MigIdle]
  /\ UNCHANGED <<cfgVars, mainVars, dbVars, healthVars, poolVars, usersVars>>

\* The connect completes before the deadline: Ok(Ok(pool)); the timer is
\* dropped.
InitPoolConnectOk(c) ==
  /\ cpc[c] = "connecting"
  /\ db = "up"
  /\ elapsed[c] < ConnectTimeoutSecs
  /\ cpc' = [cpc EXCEPT ![c] = "migrating"]
  /\ mig' = [mig EXCEPT ![c] = [MigIdle EXCEPT !.phase = "lock"]]
  /\ elapsed' = [elapsed EXCEPT ![c] = 0]
  /\ UNCHANGED <<cfgVars, mainVars, dbVars, healthVars, cres, calls, poolVars,
                 usersVars>>

\* The connect fails before the deadline: Ok(Err(e)), returned by the
\* second "?".
InitPoolConnectErr(c) ==
  /\ cpc[c] = "connecting"
  /\ db = "refusing"
  /\ elapsed[c] < ConnectTimeoutSecs
  /\ cpc' = [cpc EXCEPT ![c] = "err"]
  /\ cres' = [cres EXCEPT ![c] = "connect"]
  /\ elapsed' = [elapsed EXCEPT ![c] = 0]
  /\ UNCHANGED <<cfgVars, mainVars, dbVars, healthVars, mig, calls, poolVars,
                 usersVars>>

\* A second passes while the connect is pending.
InitPoolTick(c) ==
  /\ cpc[c] = "connecting"
  /\ elapsed[c] < ConnectTimeoutSecs
  /\ elapsed' = [elapsed EXCEPT ![c] = @ + 1]
  /\ UNCHANGED <<cfgVars, mainVars, dbVars, healthVars, mig, callerVars,
                 poolVars, usersVars>>

\* Mutant: the connect is awaited without the timeout wrapper.
InitPoolTimeout_NoTimer(c) ==
  /\ cpc[c] = "connecting"
  /\ FALSE
  /\ UNCHANGED vars

\* The deadline passes first: Err(Elapsed), mapped to "Timed out
\* connecting to database"; the connect future is dropped.
InitPoolTimeout(c) ==
  /\ cpc[c] = "connecting"
  /\ elapsed[c] >= ConnectTimeoutSecs
  /\ cpc' = [cpc EXCEPT ![c] = "err"]
  /\ cres' = [cres EXCEPT ![c] = "timeout"]
  /\ UNCHANGED <<cfgVars, mainVars, dbVars, healthVars, elapsed, mig, calls,
                 poolVars, usersVars>>

\* sqlx::migrate!().run(&pool) while it makes progress.
InitPoolMigrateStep(c) ==
  /\ cpc[c] = "migrating"
  /\ \/ MigLock(c)
     \/ MigApply(c)
  /\ UNCHANGED <<cfgVars, mainVars, db, dbDownAt, healthVars, elapsed,
                 callerVars, poolVars, usersVars>>

\* run returned Err, returned by "?": the pool is dropped.
InitPoolMigrateErr(c) ==
  /\ cpc[c] = "migrating"
  /\ \/ MigApplyFail(c)
     \/ MigDbFail(c)
  /\ cpc' = [cpc EXCEPT ![c] = "err"]
  /\ cres' = [cres EXCEPT ![c] = "migrate"]
  /\ UNCHANGED <<cfgVars, mainVars, db, dbDownAt, healthVars, elapsed, calls,
                 poolVars, usersVars>>

\* run returned Ok: Ok(pool).
InitPoolReturn(c) ==
  /\ cpc[c] = "migrating"
  /\ MigUnlock(c)
  /\ cpc' = [cpc EXCEPT ![c] = "ok"]
  /\ cres' = [cres EXCEPT ![c] = "ok"]
  /\ UNCHANGED <<cfgVars, mainVars, db, dbDownAt, healthVars, elapsed, calls,
                 poolVars, usersVars>>

\* ------------------------------------------------------------------------
\* Specification of callers of init_pool_and_migrate
\* ------------------------------------------------------------------------

\* Environments of the callers: the configuration loads.
CallerEnvs ==
  { [EmptyEnv EXCEPT !["DATABASE_URL"] = u, !["DB_CONNECT_TIMEOUT_SECS"] = t] :
    u \in {Str(<<>>), Str(GoodUrl)},
    t \in {Str(<<"0">>), Str(<<"2">>)} }

IpmInit ==
  /\ env \in CallerEnvs
  /\ envFile = NoFile
  /\ db \in {"up", "refusing", "silent"}
  /\ ledger \in {Prefix(k) : k \in 0..NumMigrations}
  /\ config = FromEnv(env, envFile)
  /\ portFree = TRUE
  /\ InitCommon

IpmNext ==
  \/ \E c \in Callers : InitPoolCall(c)
  \/ \E c \in Callers : InitPoolConnectOk(c)
  \/ \E c \in Callers : InitPoolConnectErr(c)
  \/ \E c \in Callers : InitPoolTick(c)
  \/ \E c \in Callers : InitPoolTimeout(c)
  \/ \E c \in Callers : InitPoolMigrateStep(c)
  \/ \E c \in Callers : InitPoolMigrateErr(c)
  \/ \E c \in Callers : InitPoolReturn(c)
  \/ DbChange

IpmSpec == IpmInit /\ [][IpmNext]_vars

\* The runtime's timer advances and fires.
IpmFairness ==
  \A c \in Callers : WF_vars(InitPoolTick(c)) /\ WF_vars(InitPoolTimeout(c))

IpmFairSpec == IpmSpec /\ IpmFairness

\* ------------------------------------------------------------------------
\* The pool under concurrent health checks
\* (src/repository/mod.rs:19-23, src/main.rs:86-93)
\* ------------------------------------------------------------------------

\* PgPoolOptions as built from the Config.
PoolMax == ToNat(config.cfg.db_max_connections)
PoolMin == ToNat(config.cfg.db_min_connections)
AcquireTimeoutSecs == ToNat(config.cfg.db_acquire_timeout_secs)

\* Connections checked out of the pool: one per handler task executing
\* its query.
CheckedOut == Cardinality({h \in Handlers : hpc[h] = "querying"})

\* Connections the pool has open.
PoolSize == idle + CheckedOut

\* Requests being handled.
Probing == Cardinality({h \in Handlers : hpc[h] # "idle"})

\* GET /health is routed to the handler; execute(&state.pool) starts by
\* acquiring a connection, under the acquire timeout.
ProbeStart(h) ==
  /\ pc = "serving"
  /\ appState = "pool"
  /\ hpc[h] = "idle"
  /\ Len(served) + Probing < MaxRequests
  /\ hpc' = [hpc EXCEPT ![h] = "acquiring"]
  /\ waited' = [waited EXCEPT ![h] = 0]
  /\ UNCHANGED <<cfgVars, mainVars, dbVars, elapsed, mig, served, callerVars,
                 idle, usersVars>>

\* Mutant: a connection is handed out without a permit of the pool.
ProbeAcquire_NoPermit(h) ==
  /\ hpc[h] = "acquiring"
  /\ waited[h] < AcquireTimeoutSecs
  /\ db = "up"
  /\ idle' = IF idle > 0 THEN idle - 1 ELSE idle
  /\ hpc' = [hpc EXCEPT ![h] = "querying"]
  /\ waited' = [waited EXCEPT ![h] = 0]
  /\ UNCHANGED <<cfgVars, mainVars, dbVars, elapsed, mig, served, callerVars,
                 usersVars>>

\* The acquire completes before its deadline: a permit is free, and an
\* idle connection answers the ping or a new connection is opened.
ProbeAcquire(h) ==
  /\ hpc[h] = "acquiring"
  /\ waited[h] < AcquireTimeoutSecs
  /\ CheckedOut < PoolMax
  /\ db = "up"
  /\ idle' = IF idle > 0 THEN idle - 1 ELSE idle
  /\ hpc' = [hpc EXCEPT ![h] = "querying"]
  /\ waited' = [waited EXCEPT ![h] = 0]
  /\ UNCHANGED <<cfgVars, mainVars, dbVars, elapsed, mig, served, callerVars,
                 usersVars>>

\* An idle connection fails the ping of the acquire and is closed; the
\* acquire goes on.
ProbeAcquireDropIdle(h) ==
  /\ hpc[h] = "acquiring"
  /\ waited[h] < AcquireTimeoutSecs
  /\ CheckedOut < PoolMax
  /\ db # "up"
  /\ idle > 0
  /\ idle' = idle - 1
  /\ UNCHANGED <<cfgVars, mainVars, dbVars, elapsed, mig, healthVars,
                 callerVars, waited, usersVars>>

\* A second passes while the acquire is pending.
ProbeAcquireTick(h) ==
  /\ hpc[h] = "acquiring"
  /\ waited[h] < AcquireTimeoutSecs
  /\ waited' = [waited EXCEPT ![h] = @ + 1]
  /\ UNCHANGED <<cfgVars, mainVars, dbVars, elapsed, mig, healthVars,
                 callerVars, idle, usersVars>>

\* Mutant: the acquire has no deadline.
ProbeAcquireTimeout_NoTimer(h) ==
  /\ hpc[h] = "acquiring"
  /\ FALSE
  /\ UNCHANGED vars

\* The acquire deadline passes: execute returns Err(PoolTimedOut) and the
\* handler returns its failure string.
ProbeAcquireTimeout(h) ==
  /\ hpc[h] = "acquiring"
  /\ waited[h] >= AcquireTimeoutSecs
  /\ LET r == HealthResponse(FALSE)
     IN  served' = Append(served, [probeOk |-> FALSE,
                                   status |-> r.status, body |-> r.body])
  /\ hpc' = [hpc EXCEPT ![h] = "idle"]
  /\ UNCHANGED <<cfgVars, mainVars, dbVars, elapsed, mig, callerVars,
                 poolVars, usersVars>>

\* The query returns on the checked-out connection: Ok when the server
\* answered, and the connection goes back to the pool; Err when it
\* refused, and the broken connection is closed.  The handler returns its
\* string.  No deadline covers the query.
ProbeQueryReturn(h) ==
  /\ hpc[h] = "querying"
  /\ db \in {"up", "refusing"}
  /\ LET probeOk == (db = "up")
         r == HealthResponse(probeOk)
     IN  served' = Append(served, [probeOk |-> probeOk,
                                   status |-> r.status, body |-> r.body])
  /\ idle' = IF db = "up" THEN idle + 1 ELSE idle
  /\ hpc' = [hpc EXCEPT ![h] = "idle"]
  /\ UNCHANGED <<cfgVars, mainVars, dbVars, elapsed, mig, callerVars,
                 waited, usersVars>>

\* The pool's maintenance opens connections up to min_connections, never
\* past max_connections.
PoolMinConnections ==
  /\ pc = "serving"
  /\ db = "up"
  /\ PoolSize < PoolMin
  /\ PoolSize < PoolMax
  /\ idle' = idle + 1
  /\ UNCHANGED <<cfgVars, mainVars, dbVars, elapsed, mig, healthVars,
                 callerVars, waited, usersVars>>

\* The pool's maintenance closes a connection idle for idle_timeout,
\* down to min_connections.
PoolReapIdle ==
  /\ pc = "serving"
  /\ idle > 0
  /\ PoolSize > PoolMin
  /\ idle' = idle - 1
  /\ UNCHANGED <<cfgVars, mainVars, dbVars, elapsed, mig, healthVars,
                 callerVars, waited, usersVars>>

\* ------------------------------------------------------------------------
\* Specification of the serving process and its pool
\* ------------------------------------------------------------------------

\* Environments of the serving process: the configuration loads.
PoolEnvs ==
  { [EmptyEnv EXCEPT !["DATABASE_URL"] = Str(GoodUrl),
                     !["DB_MAX_CONNECTIONS"] = mx,
                     !["DB_MIN_CONNECTIONS"] = mn,
                     !["DB_ACQUIRE_TIMEOUT_SECS"] = a] :
    mx \in {Str(<<"1">>), Str(<<"2">>)},
    mn \in {NotPresent, Str(<<"3">>)},
    a \in {Str(<<"0">>), Str(<<"2">>)} }

\* The state in which the accept loop starts: the startup has completed,
\* and the pool holds the connection its construction opened.
PoolInit ==
  /\ env \in PoolEnvs
  /\ envFile = NoFile
  /\ db \in {"up", "refusing", "silent"}
  /\ dbDownAt = IF db = "up" THEN "up" ELSE "other"
  /\ ledger = FullLedger
  /\ ddlRuns = [v \in Versions |-> 1]
  /\ lockHolder = NoProc
  /\ config = FromEnv(env, envFile)
  /\ portFree = TRUE
  /\ pc = "serving"
  /\ diag = ""
  /\ appState = "pool"
  /\ listener = "bound"
  /\ elapsed = [p \in Procs |-> 0]
  /\ mig = [p \in Procs |->
              IF p = Main
              THEN [phase |-> "ok", idx |-> NumMigrations, snap |-> Versions,
                    err |-> "none"]
              ELSE MigIdle]
  /\ hpc = [h \in Handlers |-> "idle"]
  /\ served = <<>>
  /\ cpc = [c \in Callers |-> "idle"]
  /\ cres = [c \in Callers |-> "none"]
  /\ calls = 0
  /\ idle = 1
  /\ waited = [h \in Handlers |-> 0]
  /\ InitUsers

PoolNext ==
  \/ \E h \in Handlers : ProbeStart(h)
  \/ \E h \in Handlers : ProbeAcquire(h)
  \/ \E h \in Handlers : ProbeAcquireDropIdle(h)
  \/ \E h \in Handlers : ProbeAcquireTick(h)
  \/ \E h \in Handlers : ProbeAcquireTimeout(h)
  \/ \E h \in Handlers : ProbeQueryReturn(h)
  \/ PoolMinConnections
  \/ PoolReapIdle
  \/ DbChange

PoolSpec == PoolInit /\ [][PoolNext]_vars

\* The runtime's timer advances and fires, and a query returns unless the
\* server stays silent from some time on.
PoolFairness ==
  \A h \in Handlers :
    /\ WF_vars(ProbeAcquireTick(h))
    /\ WF_vars(ProbeAcquireTimeout(h))
    /\ SF_vars(ProbeQueryReturn(h))

PoolFairSpec == PoolSpec /\ PoolFairness

\* ------------------------------------------------------------------------
\* Specification of the tests on the users table
\* ------------------------------------------------------------------------

\* The state setup() returns in: the database is up and every migration
\* is applied.
UsersInit ==
  /\ env = [EmptyEnv EXCEPT !["DATABASE_URL"] = Str(GoodUrl)]
  /\ envFile = NoFile
  /\ db = "up"
  /\ ledger = FullLedger
  /\ config = NoConfig
  /\ portFree = TRUE
  /\ InitCommon

UsersNext ==
  \/ \E t \in Txs : TxBegin(t)
  \/ \E t \in Txs, e \in Emails : TxInsert(t, e)
  \/ \E t \in Txs : TxRollback(t)
  \/ \E t \in Txs : TxCommit(t)
  \/ CleanupDatabase

UsersSpec == UsersInit /\ [][UsersNext]_vars

\* ------------------------------------------------------------------------
\* Properties of a startup run
\* ------------------------------------------------------------------------

\* A consumer has the pool: the router state holds it, a handler task is
\* using it, or a response was produced with it.
PoolHandedOff ==
  \/ appState = "pool"
  \/ \E h \in Handlers : hpc[h] = "probing"
  \/ served # <<>>

\* The startup migration run has returned Ok and left every migration
\* recorded.
MigrationCompleted ==
  /\ mig[Main].phase = "ok"
  /\ lockHolder # Main
  /\ ledger = FullLedger

\* C1: whenever a consumer (the router state, the /health handler) holds
\* or uses the pool, and whenever the server accepts connections, the
\* startup migration has already returned success; migrations are then
\* neither pending nor in progress.
C1_MigrationBeforeHandoff ==
  (PoolHandedOff \/ listener = "bound" \/ pc = "serving") => MigrationCompleted

\* C1 witness: a /health request was answered on a run whose migration
\* run found an empty ledger and applied every migration.
C1_Witness ==
  /\ pc = "serving"
  /\ served # <<>>
  /\ mig[Main].phase = "ok"
  /\ mig[Main].snap = {}
  /\ ledger = FullLedger

ConfigFailed == pc # "start" /\ ~config.ok
ConnectFailed == pc = "exit_err" /\ config.ok /\ mig[Main].phase = "none"
MigrateFailed == mig[Main].phase = "err"

NeverServed ==
  /\ listener = "none"
  /\ pc # "bound"
  /\ pc # "serving"
  /\ served = <<>>
  /\ \A h \in Handlers : hpc[h] = "idle"

\* C2: when the configuration load, the pool connect or the migration
\* fails, main has returned an error (non-zero exit) whose message names
\* that phase, the socket was never bound and no connection was accepted.
C2_FailedStartupNeverServes ==
  /\ ConfigFailed =>
       pc = "exit_err" /\ diag = "Failed to load configuration" /\ NeverServed
  /\ ConnectFailed =>
       diag = "Failed to create database pool" /\ NeverServed
  /\ MigrateFailed =>
       pc = "exit_err" /\ diag = "Failed to run database migrations"
       /\ NeverServed

\* C2 witness: the migration run failed partway (the first migration was
\* applied by this run, the second failed) and main exited.
C2_Witness ==
  /\ pc = "exit_err"
  /\ mig[Main].phase = "err"
  /\ mig[Main].snap = {}
  /\ Len(ledger) = 1

\* The .env file defines variable k on a line that the load reaches.
FileGives(f, k) ==
  /\ f.present
  /\ \E i \in DOMAIN f.lines :
       /\ \A j \in 1..i : ~f.lines[j].bad
       /\ f.lines[i].key = k

\* The step in which main calls Config::from_env.
LoadStep == pc = "start" /\ pc' # "start"

NoPoolConstructed ==
  /\ appState = "none"
  /\ mig[Main].phase = "none"
  /\ elapsed[Main] = 0
  /\ pc # "create_pool"
  /\ lockHolder # Main

\* C4 (as claimed): whenever DATABASE_URL is unset in the environment
\* the process starts with, Config::from_env returns an error and main
\* exits.
C4_Original ==
  [][(LoadStep /\ env["DATABASE_URL"] = NotPresent)
       => (~config'.ok /\ pc' = "exit_err")]_vars

\* C4 (amended): whenever DATABASE_URL is unset in the process
\* environment and not supplied by the .env file, Config::from_env returns
\* an error whatever the other variables hold; after that error no pool
\* is constructed and no socket is bound.
C4_MissingUrlFails ==
  /\ [][(LoadStep /\ env["DATABASE_URL"] = NotPresent
           /\ ~FileGives(envFile, "DATABASE_URL"))
          => (~config'.ok /\ pc' = "exit_err")]_vars
  /\ [](ConfigFailed => (NoPoolConstructed /\ NeverServed))

\* C4 witness: from_env failed on a missing DATABASE_URL while other
\* variables were set.
C4_Witness ==
  /\ pc = "exit_err"
  /\ ~config.ok
  /\ config.err = "NotPresent"
  /\ IsStr(env["SERVER_PORT"])
  /\ IsStr(env["DB_CONNECT_TIMEOUT_SECS"])

\* C8 (as claimed): every /health response has status 200 exactly when
\* its probe succeeded, and a 5xx status when the probe failed.
C8_Original ==
  \A i \in DOMAIN served :
    /\ (served[i].status = 200) <=> served[i].probeOk
    /\ ~served[i].probeOk => served[i].status \in 500..599

\* C9: a failed probe is never fatal.  Each probe that completes, failed
\* or not, appends one response and leaves the server serving; a failed
\* probe is answered "Database connection failed"; a probe that succeeds
\* is answered "OK" whatever happened to earlier probes.
C9_ProbeFailureNotFatal ==
  /\ [][\A h \in Handlers :
          (hpc[h] = "probing" /\ hpc'[h] = "idle") =>
            /\ pc' = "serving"
            /\ Len(served') = Len(served) + 1]_vars
  /\ [](\A i \in DOMAIN served :
          /\ pc = "serving"
          /\ served[i].probeOk => served[i].body = "OK"
          /\ ~served[i].probeOk => served[i].body = "Database connection failed")

\* C9 witness: a probe failed and a later probe succeeded and was
\* answered "OK", the server still serving.
C9_Witness ==
  /\ pc = "serving"
  /\ \E i, j \in DOMAIN served :
       /\ i < j
       /\ ~served[i].probeOk
       /\ served[j].probeOk
       /\ served[j].body = "OK"

\* C10 (as claimed): when the pool was built and migrated but the
\* database has not answered since the migration run returned, startup
\* fails fast: the server does not come to accept connections.
C10_Original ==
  ~(pc = "serving" /\ db # "up" /\ dbDownAt = "migrated")

\* ------------------------------------------------------------------------
\* Properties of init_pool_and_migrate
\* ------------------------------------------------------------------------

C6_MigrationIdempotent ==
  /\ [][ledger = FullLedger => (ledger' = ledger /\ ddlRuns' = ddlRuns)]_vars
  /\ [](\A c \in Callers :
          (mig[c].snap = Versions /\ mig[c].phase = "err") => mig[c].err = "db")
  /\ [](\A c \in Callers :
          (mig[c].snap = Versions /\ cres[c] = "migrate") => mig[c].err = "db")

\* C6 witness: one call found no migration recorded and applied them
\* all; a later call, made against the migrated database, found every
\* migration recorded and returned Ok; each migration's SQL ran exactly
\* once.
C6_Witness ==
  /\ \E c, d \in Callers :
       /\ c # d
       /\ cres[c] = "ok" /\ mig[c].snap = {}
       /\ cres[d] = "ok" /\ mig[d].snap = Versions
  /\ ledger = FullLedger
  /\ \A v \in Versions : ddlRuns[v] = 1

IsPrefixOfMigrations(l) ==
  /\ Len(l) <= NumMigrations
  /\ \A i \in DOMAIN l : l[i] = i

\* C7: the ledger is at every state a prefix of the migrations in
\* ascending version order, each recorded migration's SQL has run exactly
\* once and no other has run, and a call that returned Ok leaves every
\* migration recorded.
C7_LedgerAscendingOnce ==
  /\ IsPrefixOfMigrations(ledger)
  /\ \A v \in Versions :
       ddlRuns[v] = IF \E i \in DOMAIN ledger : ledger[i] = v THEN 1 ELSE 0
  /\ \A c \in Callers : cres[c] = "ok" => ledger = FullLedger

\* C7 witness: a call that found the ledger empty returned Ok with the
\* full ledger, while another caller was running its own migration.
C7_Witness ==
  \E c, d \in Callers :
    /\ c # d
    /\ cres[c] = "ok"
    /\ mig[c].snap = {}
    /\ ledger = FullLedger
    /\ cpc[d] = "migrating"

\* ------------------------------------------------------------------------
\* Specification of configuration loading
\* ------------------------------------------------------------------------

ConfigInit ==
  /\ \E S \in SetVarChoices :
       \E f \in [S -> OptionalValues], u \in UrlValues :
         env = EnvSetting(u, f)
  /\ envFile \in EnvFiles
  /\ db = "up"
  /\ ledger = <<>>
  /\ config = NoConfig
  /\ portFree = TRUE
  /\ InitCommon

ConfigNext == LoadConfig

ConfigSpec == ConfigInit /\ [][ConfigNext]_vars

\* ------------------------------------------------------------------------
\* Properties of configuration loading
\* ------------------------------------------------------------------------

\* The documented fields: variable -> field, range maximum and default.
FieldName(k) ==
  CASE k = "SERVER_PORT" -> "server_port"
    [] k = "DB_MAX_CONNECTIONS" -> "db_max_connections"
    [] k = "DB_MIN_CONNECTIONS" -> "db_min_connections"
    [] k = "DB_CONNECT_TIMEOUT_SECS" -> "db_connect_timeout_secs"
    [] k = "DB_IDLE_TIMEOUT_SECS" -> "db_idle_timeout_secs"
    [] k = "DB_ACQUIRE_TIMEOUT_SECS" -> "db_acquire_timeout_secs"

FieldMax(k) ==
  CASE k = "SERVER_PORT" -> U16Max
    [] k \in {"DB_MAX_CONNECTIONS", "DB_MIN_CONNECTIONS"} -> U32Max
    [] OTHER -> U64Max

ClaimedDefault(k) ==
  CASE k = "SERVER_PORT" -> <<3, 0, 0, 0>>
    [] k = "DB_MAX_CONNECTIONS" -> <<1, 0>>
    [] k = "DB_MIN_CONNECTIONS" -> <<1>>
    [] k = "DB_CONNECT_TIMEOUT_SECS" -> <<5>>
    [] k = "DB_IDLE_TIMEOUT_SECS" -> <<3, 0, 0>>
    [] k = "DB_ACQUIRE_TIMEOUT_SECS" -> <<3, 0>>

\* The decimal numeral in s: an optional "+", then digits only.
Numeral(s) == IF s # <<>> /\ s[1] = "+" THEN Tail(s) ELSE s

NumberOf(s) == Canon([i \in DOMAIN Numeral(s) |-> DigitOf(Numeral(s)[i])])

\* s denotes a number within the range 0..max.
ValidFor(s, max) ==
  /\ Numeral(s) # <<>>
  /\ \A i \in DOMAIN Numeral(s) : Numeral(s)[i] \in Digits
  /\ NumLeq(NumberOf(s), max)

\* The value the claim gives a field for a variable's value v.
ExpectedField(k, v) ==
  IF IsStr(v) /\ ValidFor(v.s, FieldMax(k)) THEN NumberOf(v.s)
  ELSE ClaimedDefault(k)

\* The value of the first line of the file that defines k.
FileValue(f, k) ==
  LET i == CHOOSE i \in DOMAIN f.lines :
             /\ ~f.lines[i].bad
             /\ f.lines[i].key = k
             /\ \A j \in 1..(i - 1) : f.lines[j].bad \/ f.lines[j].key # k
  IN  f.lines[i].val

\* The value from_env reads for k: the process environment's when it is
\* valid Unicode, else the .env file's, else the process environment's.
Effective(k) ==
  IF IsStr(env[k]) THEN env[k]
  ELSE IF FileGives(envFile, k) THEN Str(FileValue(envFile, k))
  ELSE env[k]

\* C5 (as claimed): whenever DATABASE_URL is set in the process
\* environment, from_env succeeds and each optional field equals the
\* parsed value of its variable when valid for the field's type, and its
\* default when the variable is unset, unparsable or out of range.
C5_Original ==
  [][(LoadStep /\ env["DATABASE_URL"] # NotPresent) =>
       /\ config'.ok
       /\ \A k \in OptionalVars :
            config'.cfg[FieldName(k)] = ExpectedField(k, env[k])]_vars

\* C5 (amended): whenever DATABASE_URL is set to valid Unicode, in the
\* process environment or else by the .env file, from_env succeeds, and
\* each optional field equals the parsed value of the variable's value
\* (the process environment's, else the .env file's) when that is valid
\* for the field's type, and its default (3000, 10, 1, 5, 300, 30) when
\* the variable is unset, not Unicode, unparsable or out of range.
C5_OptionalFieldsDefault ==
  [][(LoadStep /\ IsStr(Effective("DATABASE_URL"))) =>
       /\ config'.ok
       /\ pc' = "create_pool"
       /\ config'.cfg.database_url = Effective("DATABASE_URL").s
       /\ \A k \in OptionalVars :
            config'.cfg[FieldName(k)] = ExpectedField(k, Effective(k))]_vars

\* C5 witness: the configuration loaded with one field parsed from its
\* variable and another, set out of its range, at its default.
C5_Witness ==
  /\ pc = "create_pool"
  /\ config.ok
  /\ env["DB_MAX_CONNECTIONS"] = Str(<<"8", "0", "8", "0">>)
  /\ config.cfg.db_max_connections = <<8, 0, 8, 0>>
  /\ env["SERVER_PORT"] = Str(<<"6", "5", "5", "3", "6">>)
  /\ config.cfg.server_port = <<3, 0, 0, 0>>

\* C11 (as claimed): every Config that from_env produces has a non-empty
\* database_url; a DATABASE_URL set to the empty string is not accepted.
C11_Original ==
  config.ok => config.cfg.database_url # <<>>

\* No two rows of S share an email.
DistinctEmails(S) ==
  \A r1, r2 \in S : r1.email = r2.email => r1 = r2

\* The step executes an INSERT of email e on transaction t.
InsertStep(t, e) ==
  /\ lastInsert' # lastInsert
  /\ lastInsert'.tx = t
  /\ lastInsert'.email = e

\* C12: in the migrated users table no two rows share an email, among the
\* committed rows and among the rows any transaction sees; and an insert
\* whose email is that of a row it sees, committed or inserted earlier in
\* the same transaction, fails with a unique violation and leaves the
\* committed rows and the transaction's rows unchanged.
C12_UniqueEmail ==
  /\ [](DistinctEmails(rows) /\ \A t \in Txs : DistinctEmails(VisibleTo(t)))
  /\ [][\A t \in Txs, e \in Emails :
          (InsertStep(t, e) /\ tx[t].state = "active"
             /\ e \in EmailsOf(VisibleTo(t)))
          => /\ lastInsert'.res = "unique_violation"
             /\ rows' = rows
             /\ tx'[t].pending = tx[t].pending]_vars

\* C12 witness: with a row committed, a transaction inserted another
\* email and then the same email again; the second insert failed with a
\* unique violation, leaving one row with that email.
C12_Witness ==
  \E t \in Txs :
    /\ lastInsert.tx = t
    /\ lastInsert.res = "unique_violation"
    /\ lastInsert.email \in EmailsOf(tx[t].pending)
    /\ lastInsert.email \notin EmailsOf(rows)
    /\ rows # {}
    /\ Cardinality(VisibleTo(t)) = 2

RespondStep(h) ==
  /\ hpc[h] # "idle"
  /\ hpc'[h] = "idle"

====
